---- MODULE Spec2Model ----
(***************************************************************************)
(* Self-service password reset (SSPR) workflow of backend/accounts:        *)
(* PasswordResetRequest and OtpToken rows, the three API views             *)
(* (request / validate-otp / confirm), the service functions they call and *)
(* the admin actions that touch the same rows.                             *)
(*                                                                         *)
(* Time is the wall clock (timezone.now()) in minutes, observed at the     *)
(* instants of ClockSamples.  Tokens of requests and primary keys of OTP   *)
(* rows are fresh naturals handed out in creation order, so that rows      *)
(* created in the same model minute keep the order of their real           *)
(* timestamps.                                                             *)
(***************************************************************************)
EXTENDS Integers, Sequences, FiniteSets, TLC

VARIABLES now, reqs, otps, nextTok, nextOtp, last, proc, tally

vars == <<now, reqs, otps, nextTok, nextOtp, last, proc, tally>>

----------------------------------------------------------------------------
(* Bounds of the model *)

MaxRequests == 1
MaxOtps == 2
MaxCode == 1
MaxLate == 1
RateMaxRequests == 4
MaxHandlers == 2
MaxCompared == 5
MaxApplied == 2
MaxStarters == 3
RaceMaxRequests == 5
PairRequests == 2
PairOtps == 2

(* Program constants *)

OTP_EXPIRY_MINUTES == 10
RESET_REQUEST_EXPIRY_HOURS == 1
MAX_RESET_REQUESTS_PER_HOUR == 3
RATE_WINDOW_HOURS == 1
ATTEMPTS_CEILING == 3
MAX_OTP_ATTEMPTS == 3
CODE_WIDTH == 6

Hours(h) == h * 60

NULL == -1

Identifiers == {"a@x", "b@x"}
FlowIdentifiers == {"a@x"}
SYSTEM_CHOICES == {"zoho", "ad", "both"}
RESET_REQUEST_STATUS_CHOICES == {"pending", "otp_validated", "completed", "expired", "failed"}
OTP_STATUS_CHOICES == {"pending", "validated", "expired", "exceeded_attempts"}

(* the instants at which the clock is observed: time 0, one OTP lifetime
   later, one request lifetime later, and whole OTP lifetimes after that *)
ClockSamples ==
  {0, OTP_EXPIRY_MINUTES}
    \cup {Hours(RESET_REQUEST_EXPIRY_HOURS) + k * OTP_EXPIRY_MINUTES : k \in 0..MaxLate}

----------------------------------------------------------------------------
(* Pure helpers *)

DigitChars == <<"0", "1", "2", "3", "4", "5", "6", "7", "8", "9">>

RECURSIVE Pow10(_)
Pow10(k) == IF k = 0 THEN 1 ELSE 10 * Pow10(k - 1)

(* f"{n:06d}": decimal digits of n, zero-padded on the left to CODE_WIDTH *)
FormatCode(n) == [k \in 1..CODE_WIDTH |-> DigitChars[((n \div Pow10(CODE_WIDTH - k)) % 10) + 1]]

IsSpace(ch) == ch = " "

RECURSIVE LStrip(_)
LStrip(s) == IF s # <<>> /\ IsSpace(Head(s)) THEN LStrip(Tail(s)) ELSE s

RECURSIVE RStrip(_)
RStrip(s) == IF s # <<>> /\ IsSpace(s[Len(s)]) THEN RStrip(SubSeq(s, 1, Len(s) - 1)) ELSE s

(* str.strip() *)
Strip(s) == RStrip(LStrip(s))

(* Variant of SetMax that takes the least element *)
SetMax_Least(S) == CHOOSE x \in S : \A y \in S : x <= y

SetMax(S) == CHOOSE x \in S : \A y \in S : y <= x

----------------------------------------------------------------------------
(* Model methods and queries *)

(* Variant of is_expired that allows one more TTL of grace after expires_at *)
RequestIsExpired_Grace(r, t) == t > r.expires_at + Hours(RESET_REQUEST_EXPIRY_HOURS)

(* Variant of is_expired that reads only open requests as expired *)
RequestIsExpired_OpenOnly(r, t) ==
  r.status \in {"pending", "otp_validated"} /\ t > r.expires_at

(* PasswordResetRequest.is_expired *)
RequestIsExpired(r, t) == t > r.expires_at

(* Variant of OtpToken.is_expired that measures the lifetime of the request *)
OtpIsExpired_ByRequest(o, t) == t > o.created_at + Hours(RESET_REQUEST_EXPIRY_HOURS)

(* OtpToken.is_expired *)
OtpIsExpired(o, t) == t > o.expires_at

(* OtpToken.has_exceeded_attempts *)
HasExceededAttempts(o) == o.attempts >= ATTEMPTS_CEILING

(* Variant of increment_attempts that compares with > *)
IncrementAttempts_Late(o) ==
  LET o1 == [o EXCEPT !.attempts = o.attempts + 1]
  IN IF o1.attempts > ATTEMPTS_CEILING THEN [o1 EXCEPT !.status = "exceeded_attempts"] ELSE o1

(* OtpToken.increment_attempts *)
IncrementAttempts(o) ==
  LET o1 == [o EXCEPT !.attempts = o.attempts + 1]
  IN IF HasExceededAttempts(o1) THEN [o1 EXCEPT !.status = "exceeded_attempts"] ELSE o1

(* Variant of the rate-limit count without the created_at filter *)
RecentRequests_AnyAge(rq, i, t) ==
  Cardinality({k \in DOMAIN rq : rq[k].identifier = i})

(* the rate-limit count of request_password_reset *)
RecentRequests(rq, i, t) ==
  Cardinality({k \in DOMAIN rq :
     rq[k].identifier = i /\ rq[k].created_at >= t - Hours(RATE_WINDOW_HOURS)})

(* Variant of the rate check that rejects only above the ceiling *)
RateLimited_Above(rq, i, t) == RecentRequests(rq, i, t) > MAX_RESET_REQUESTS_PER_HOUR

RateLimited(rq, i, t) == RecentRequests(rq, i, t) >= MAX_RESET_REQUESTS_PER_HOUR

(* Variant of the query without the filter on the request *)
PendingOtps_AnyRequest(ot, tok) == {k \in DOMAIN ot : ot[k].status = "pending"}

(* OtpToken.objects.filter(reset_request=..., status='pending')
   .order_by('-created_at').first(); 0 stands for None *)
PendingOtps(ot, tok) ==
  {k \in DOMAIN ot : ot[k].reset_request = tok /\ ot[k].status = "pending"}

(* Variant of the query that orders by created_at ascending *)
NewestPending_Oldest(ot, tok) ==
  LET P == PendingOtps(ot, tok)
  IN IF P = {} THEN 0 ELSE CHOOSE k \in P : \A j \in P : k <= j

NewestPending(ot, tok) ==
  LET P == PendingOtps(ot, tok)
      latest == {k \in P : \A j \in P : ot[j].created_at <= ot[k].created_at}
  IN IF P = {} THEN 0 ELSE SetMax(latest)

(* Variant of the query below without the expires_at filter *)
ValidatedOtps_AnyAge(ot, tok, t) ==
  {k \in DOMAIN ot : /\ ot[k].reset_request = tok
                     /\ ot[k].status = "validated"
                     /\ ot[k].validated_at # NULL}

(* Variant of the query below that still accepts a challenge at its expires_at *)
ValidatedOtps_Inclusive(ot, tok, t) ==
  {k \in DOMAIN ot : /\ ot[k].reset_request = tok
                     /\ ot[k].status = "validated"
                     /\ ot[k].validated_at # NULL
                     /\ ot[k].expires_at >= t}

(* reset_request.otp_tokens.filter(status='validated', validated_at__isnull=False,
   expires_at__gt=now) *)
ValidatedOtps(ot, tok, t) ==
  {k \in DOMAIN ot : /\ ot[k].reset_request = tok
                     /\ ot[k].status = "validated"
                     /\ ot[k].validated_at # NULL
                     /\ ot[k].expires_at > t}

NewRequest(i, sys, t) ==
  [identifier |-> i, system |-> sys, status |-> "pending", created_at |-> t,
   expires_at |-> t + Hours(RESET_REQUEST_EXPIRY_HOURS), completed_at |-> NULL]

NewOtp(tok, code, t) ==
  [reset_request |-> tok, code |-> code, status |-> "pending", attempts |-> 0,
   created_at |-> t, expires_at |-> t + OTP_EXPIRY_MINUTES, validated_at |-> NULL]

Codes == {FormatCode(n) : n \in 0..MaxCode}

(* otp_code values a client submits: the codes, the codes padded with
   blanks, and a code one digit short *)
SubmittedCodes == Codes \cup {<<" ">> \o c \o <<" ">> : c \in Codes}

MalformedCodes == {Tail(FormatCode(0))}

(* OtpValidationSerializer.otp_code: the value trimmed, accepted when it is
   CODE_WIDTH digits; <<>> stands for a validation error *)
OtpCodeField(code) ==
  LET c == Strip(code)
  IN IF Len(c) = CODE_WIDTH /\ \A k \in 1..Len(c) : \E d \in 1..10 : c[k] = DigitChars[d]
     THEN c ELSE <<>>

(* What the last operation was and what it did: op, the token tok it was
   given (for Start, the token it created; 0: none), the outcome res reported
   to the caller, the identity-provider call idp it made ("none", "resolve"
   or "set"), and the OTP row cmp whose code it compared (0: no comparison). *)
Outcome(op, tok, res, idp, cmp) ==
  [op |-> op, tok |-> tok, res |-> res, idp |-> idp, cmp |-> cmp]

Quiet(op) == Outcome(op, 0, "ok", "none", 0)

(* the outcomes of the collaborators *)
ResolveOutcomes == {"phone", "none", "zoho_error", "error"}
SetCredentialOutcomes == {"ok", "false", "zoho_error", "error"}
SmsOutcomes == {"sent", "sms_error"}

----------------------------------------------------------------------------
(* Service functions and views: each maps the stored rows (rq, ot) and the
   clock t to the rows after the call, the result res the caller sees, the
   identity-provider call idp that was made and, for a validation, the OTP
   row cmp whose code was compared *)

(* the kinds of identifier at the identity provider: no account, an account
   without a phone, an account with a phone *)
AccountKinds == {"absent", "no_phone", "has_phone"}

(* ZohoClient.get_user_phone_by_email for an identifier of the given kind,
   when Zoho answers: the phone of the account, nothing when there is no
   account or no phone *)
GetUserPhoneByEmail(kind) == IF kind = "has_phone" THEN "phone" ELSE "none"

(* Variant of request_password_reset that inserts the row before it looks
   the phone up *)
CreateResetRequest_RowFirst(rq, i, sys, resolve, t, tok) ==
  LET usesZoho == sys \in {"zoho", "both"}
      idp == IF usesZoho THEN "resolve" ELSE "none"
      made == rq @@ (tok :> NewRequest(i, sys, t))
  IN IF usesZoho /\ resolve = "none"
     THEN [reqs |-> made, res |-> "AccountNotFound", idp |-> idp, phone |-> FALSE]
     ELSE IF usesZoho /\ resolve = "zoho_error"
     THEN [reqs |-> made, res |-> "ZohoException", idp |-> idp, phone |-> FALSE]
     ELSE IF usesZoho /\ resolve # "phone"
     THEN [reqs |-> made, res |-> "internal_error", idp |-> idp, phone |-> FALSE]
     ELSE [reqs |-> made, res |-> "ok", idp |-> idp, phone |-> usesZoho]

(* services.request_password_reset after its rate-limit check: the lookup
   of the phone and the insertion of the row *)
CreateResetRequest(rq, i, sys, resolve, t, tok) ==
  LET usesZoho == sys \in {"zoho", "both"}
      idp == IF usesZoho THEN "resolve" ELSE "none"
  IN IF usesZoho /\ resolve = "none"
     THEN [reqs |-> rq, res |-> "AccountNotFound", idp |-> idp, phone |-> FALSE]
     ELSE IF usesZoho /\ resolve = "zoho_error"
     THEN [reqs |-> rq, res |-> "ZohoException", idp |-> idp, phone |-> FALSE]
     ELSE IF usesZoho /\ resolve # "phone"
     THEN [reqs |-> rq, res |-> "internal_error", idp |-> idp, phone |-> FALSE]
     ELSE [reqs |-> rq @@ (tok :> NewRequest(i, sys, t)), res |-> "ok", idp |-> idp,
           phone |-> usesZoho]

(* services.request_password_reset; tok is the token of the row it may
   create, resolve what ZohoClient.get_user_phone_by_email answers *)
RequestPasswordReset(rq, i, sys, resolve, t, tok) ==
  IF RateLimited(rq, i, t)
  THEN [reqs |-> rq, res |-> "RateLimited", idp |-> "none", phone |-> FALSE]
  ELSE CreateResetRequest(rq, i, sys, resolve, t, tok)

(* Variant of generate_otp without the check of the request's status *)
GenerateOtp_AnyStatus(rq, ot, tok, code, t, id) ==
  IF RequestIsExpired(rq[tok], t)
  THEN [reqs |-> [rq EXCEPT ![tok].status = "expired"], otps |-> ot,
        res |-> "RequestExpired", idp |-> "none", cmp |-> 0]
  ELSE [reqs |-> rq, otps |-> ot @@ (id :> NewOtp(tok, code, t)),
        res |-> "ok", idp |-> "none", cmp |-> 0]

(* services.generate_otp; code is the code secrets.randbelow draws, id the
   primary key of the row it may create *)
GenerateOtp(rq, ot, tok, code, t, id) ==
  IF RequestIsExpired(rq[tok], t)
  THEN [reqs |-> [rq EXCEPT ![tok].status = "expired"], otps |-> ot,
        res |-> "RequestExpired", idp |-> "none", cmp |-> 0]
  ELSE IF rq[tok].status \notin {"pending", "otp_validated"}
  THEN [reqs |-> rq, otps |-> ot, res |-> "InvalidRequestState", idp |-> "none", cmp |-> 0]
  ELSE [reqs |-> rq, otps |-> ot @@ (id :> NewOtp(tok, code, t)),
        res |-> "ok", idp |-> "none", cmp |-> 0]

(* services.send_otp_sms: SMSClient errors reach the caller as SMSException *)
SendOtpSms(sms) == IF sms = "sent" THEN "ok" ELSE "SMSException"

(* services.validate_otp *)
ValidateOtp(rq, ot, tok, code, t) ==
  LET p == NewestPending(ot, tok)
  IN IF RequestIsExpired(rq[tok], t)
     THEN [reqs |-> [rq EXCEPT ![tok].status = "expired"], otps |-> ot,
           res |-> "RequestExpired", idp |-> "none", cmp |-> 0]
     ELSE IF p = 0
     THEN [reqs |-> rq, otps |-> ot, res |-> "NoPendingChallenge", idp |-> "none", cmp |-> 0]
     ELSE IF OtpIsExpired(ot[p], t)
     THEN [reqs |-> rq, otps |-> [ot EXCEPT ![p].status = "expired"],
           res |-> "ChallengeExpired", idp |-> "none", cmp |-> 0]
     ELSE IF HasExceededAttempts(ot[p])
     THEN [reqs |-> rq, otps |-> ot, res |-> "AttemptsExceeded", idp |-> "none", cmp |-> 0]
     ELSE IF ot[p].code # Strip(code)
     THEN [reqs |-> rq, otps |-> [ot EXCEPT ![p] = IncrementAttempts(ot[p])],
           res |-> "invalid", idp |-> "none", cmp |-> p]
     ELSE [reqs |-> [rq EXCEPT ![tok].status = "otp_validated"],
           otps |-> [ot EXCEPT ![p].status = "validated", ![p].validated_at = t],
           res |-> "valid", idp |-> "none", cmp |-> p]

(* Variant of the failure branch that leaves the stored status as it is *)
OnRemoteFailure_Keep(r) == r

(* Variant of the failure branch that stores the status failed *)
OnRemoteFailure_Failed(r) == [r EXCEPT !.status = "failed"]

(* confirm_password_reset, the branch taken when ZohoClient.reset_password
   returns False or raises ZohoException: the status is put (back) to
   otp_validated *)
OnRemoteFailure(r) ==
  IF r.status # "otp_validated" THEN [r EXCEPT !.status = "otp_validated"] ELSE r

(* Variant of the success branch that stores the status alone *)
OnRemoteSuccess_NoStamp(r, t) == [r EXCEPT !.status = "completed"]

(* confirm_password_reset, the branch taken when reset_password returns True *)
OnRemoteSuccess(r, t) == [r EXCEPT !.status = "completed", !.completed_at = t]

(* services.confirm_password_reset; idp is what ZohoClient.reset_password
   does when it is called *)
ConfirmPasswordReset(rq, ot, tok, idp, t) ==
  IF RequestIsExpired(rq[tok], t)
  THEN [reqs |-> [rq EXCEPT ![tok].status = "expired"], otps |-> ot,
        res |-> "RequestExpired", idp |-> "none", cmp |-> 0]
  ELSE IF ValidatedOtps(ot, tok, t) = {}
  THEN [reqs |-> rq, otps |-> ot, res |-> "NotVerified", idp |-> "none", cmp |-> 0]
  ELSE IF rq[tok].system \in {"zoho", "both"}
  THEN CASE idp = "ok" ->
              [reqs |-> [rq EXCEPT ![tok] = OnRemoteSuccess(rq[tok], t)], otps |-> ot,
               res |-> "ok", idp |-> "set", cmp |-> 0]
         [] idp = "false" ->
              [reqs |-> [rq EXCEPT ![tok] = OnRemoteFailure(rq[tok])], otps |-> ot,
               res |-> "RemoteCommitFailed", idp |-> "set", cmp |-> 0]
         [] idp = "zoho_error" ->
              [reqs |-> [rq EXCEPT ![tok] = OnRemoteFailure(rq[tok])], otps |-> ot,
               res |-> "ZohoException", idp |-> "set", cmp |-> 0]
         [] OTHER ->
              [reqs |-> rq, otps |-> ot, res |-> "internal_error", idp |-> "set", cmp |-> 0]
  ELSE [reqs |-> rq, otps |-> ot, res |-> "ok", idp |-> "none", cmp |-> 0]

(* the target systems a request names *)
TargetsOf(sys) == IF sys = "both" THEN {"zoho", "ad"} ELSE {sys}

(* the target systems in which confirm_password_reset has set the password
   when it returns: Zoho when reset_password was called and returned True;
   the AD branch sets nothing *)
TargetsApplied(rq, ot, tok, idp, t) ==
  IF /\ ~RequestIsExpired(rq[tok], t)
     /\ ValidatedOtps(ot, tok, t) # {}
     /\ rq[tok].system \in {"zoho", "both"}
     /\ idp = "ok"
  THEN {"zoho"} ELSE {}

NotFound(rq, ot) ==
  [reqs |-> rq, otps |-> ot, res |-> "RequestNotFound", idp |-> "none", cmp |-> 0]

(* Variant of the view that drops the OTP row when the SMS was not sent *)
PostAfterRequest_Rollback(r, ot, sms, code, t, tok, id) ==
  LET g == GenerateOtp(r.reqs, ot, tok, code, t, id)
  IN IF r.res # "ok"
     THEN [reqs |-> r.reqs, otps |-> ot, res |-> r.res, idp |-> r.idp, tok |-> 0,
           sms |-> "none"]
     ELSE IF ~r.phone
     THEN [reqs |-> r.reqs, otps |-> ot, res |-> "telefone_nao_encontrado",
           idp |-> r.idp, tok |-> tok, sms |-> "none"]
     ELSE IF g.res # "ok"
     THEN [reqs |-> g.reqs, otps |-> g.otps, res |-> g.res, idp |-> r.idp, tok |-> tok,
           sms |-> "none"]
     ELSE [reqs |-> g.reqs, otps |-> IF SendOtpSms(sms) = "ok" THEN g.otps ELSE ot,
           res |-> SendOtpSms(sms), idp |-> r.idp, tok |-> tok, sms |-> "called"]

(* PasswordResetRequestView.post once request_password_reset has returned
   r: generate_otp and send_otp_sms; sms is what the SMS client does *)
PostAfterRequest(r, ot, sms, code, t, tok, id) ==
  LET g == GenerateOtp(r.reqs, ot, tok, code, t, id)
  IN IF r.res # "ok"
     THEN [reqs |-> r.reqs, otps |-> ot, res |-> r.res, idp |-> r.idp, tok |-> 0,
           sms |-> "none"]
     ELSE IF ~r.phone
     THEN [reqs |-> r.reqs, otps |-> ot, res |-> "telefone_nao_encontrado",
           idp |-> r.idp, tok |-> tok, sms |-> "none"]
     ELSE IF g.res # "ok"
     THEN [reqs |-> g.reqs, otps |-> g.otps, res |-> g.res, idp |-> r.idp, tok |-> tok,
           sms |-> "none"]
     ELSE [reqs |-> g.reqs, otps |-> g.otps, res |-> SendOtpSms(sms), idp |-> r.idp,
           tok |-> tok, sms |-> "called"]

(* PasswordResetRequestView.post *)
PasswordResetRequestPost(rq, ot, i, sys, resolve, sms, code, t, tok, id) ==
  PostAfterRequest(RequestPasswordReset(rq, i, sys, resolve, t, tok), ot, sms, code, t, tok, id)

(* Variant of the view that falls back to the newest request when the token
   is not found *)
OtpValidationPost_Fallback(rq, ot, tok, code, t) ==
  IF OtpCodeField(code) = <<>>
  THEN [reqs |-> rq, otps |-> ot, res |-> "ValidationError", idp |-> "none", cmp |-> 0]
  ELSE IF tok \notin DOMAIN rq /\ DOMAIN rq = {} THEN NotFound(rq, ot)
  ELSE IF tok \notin DOMAIN rq
  THEN ValidateOtp(rq, ot, SetMax(DOMAIN rq), OtpCodeField(code), t)
  ELSE ValidateOtp(rq, ot, tok, OtpCodeField(code), t)

(* OtpValidationView.post *)
OtpValidationPost(rq, ot, tok, code, t) ==
  IF OtpCodeField(code) = <<>>
  THEN [reqs |-> rq, otps |-> ot, res |-> "ValidationError", idp |-> "none", cmp |-> 0]
  ELSE IF tok \notin DOMAIN rq THEN NotFound(rq, ot)
  ELSE ValidateOtp(rq, ot, tok, OtpCodeField(code), t)

(* PasswordResetConfirmView.post *)
PasswordResetConfirmPost(rq, ot, tok, idp, t) ==
  IF tok \notin DOMAIN rq THEN NotFound(rq, ot) ELSE ConfirmPasswordReset(rq, ot, tok, idp, t)

(* A log entry: the logger call that wrote it and the OTP code its message
   interpolates (<<>>: none) *)
LogEntry(call, code) == [call |-> call, code |-> code]

(* the entries SMSClient.send_otp and services.send_otp_sms write for the
   OTP code *)
SendOtpSmsLog(sms, code) ==
  IF sms = "sent"
  THEN {LogEntry("sms_client.py:104", <<>>), LogEntry("services.py:157", code)}
  ELSE {LogEntry("sms_client.py:113", <<>>)}

(* the entries PasswordResetRequestView.post and the functions it calls write *)
StartLog(rq, ot, i, sys, resolve, sms, code, t, tok, id) ==
  LET r == RequestPasswordReset(rq, i, sys, resolve, t, tok)
      p == PostAfterRequest(r, ot, sms, code, t, tok, id)
  IN (IF r.res = "ZohoException" THEN {LogEntry("services.py:80", <<>>)} ELSE {})
     \cup (IF r.res = "ok" THEN {LogEntry("services.py:91", <<>>)} ELSE {})
     \cup (IF p.sms = "called"
           THEN {LogEntry("services.py:132", <<>>)} \cup SendOtpSmsLog(sms, code) ELSE {})
     \cup (CASE p.res \in {"RateLimited", "AccountNotFound", "RequestExpired",
                           "InvalidRequestState"} -> {LogEntry("views.py:93", <<>>)}
             [] p.res = "ZohoException" -> {LogEntry("views.py:102", <<>>)}
             [] p.res = "SMSException" -> {LogEntry("views.py:111", <<>>)}
             [] p.res = "internal_error" -> {LogEntry("views.py:120", <<>>)}
             [] OTHER -> {})

(* the entry generate_otp writes *)
IssueLog(rq, ot, tok, code, t, id) ==
  IF GenerateOtp(rq, ot, tok, code, t, id).res = "ok"
  THEN {LogEntry("services.py:132", <<>>)} ELSE {}

(* the entries OtpValidationView.post and validate_otp write *)
VerifyLog(rq, ot, tok, code, t) ==
  LET r == OtpValidationPost(rq, ot, tok, code, t)
  IN CASE r.res = "invalid" -> {LogEntry("services.py:213", <<>>)}
       [] r.res = "valid" -> {LogEntry("services.py:227", <<>>)}
       [] r.res \in {"RequestExpired", "NoPendingChallenge", "ChallengeExpired",
                     "AttemptsExceeded"} -> {LogEntry("views.py:192", <<>>)}
       [] OTHER -> {}

(* the entries PasswordResetConfirmView.post and confirm_password_reset write *)
CommitLog(rq, ot, tok, idp, t) ==
  LET r == PasswordResetConfirmPost(rq, ot, tok, idp, t)
  IN CASE r.res = "ok" ->
            (IF r.idp = "set" THEN {LogEntry("services.py:283", <<>>)}
             ELSE {LogEntry("services.py:304", <<>>)})
       [] r.res = "ZohoException" ->
            {LogEntry("services.py:299", <<>>), LogEntry("views.py:284", <<>>)}
       [] r.res = "internal_error" -> {LogEntry("views.py:294", <<>>)}
       [] r.res \in {"RequestExpired", "NotVerified", "RemoteCommitFailed"} ->
            {LogEntry("views.py:274", <<>>)}
       [] OTHER -> {}

(* PasswordResetRequestAdmin.expire_old_requests on the selected rows *)
ExpireSelected(rq, sel) ==
  [k \in DOMAIN rq |->
     IF k \in sel /\ rq[k].status \in {"pending", "otp_validated"}
     THEN [rq[k] EXCEPT !.status = "expired"] ELSE rq[k]]

----------------------------------------------------------------------------
(* The operations *)

Start(i, sys, resolve, sms, code) ==
  \E r \in {PasswordResetRequestPost(reqs, otps, i, sys, resolve, sms, code, now,
                                nextTok, nextOtp)} :
     /\ reqs' = r.reqs
     /\ otps' = r.otps
     /\ nextTok' = IF nextTok \in DOMAIN r.reqs THEN nextTok + 1 ELSE nextTok
     /\ nextOtp' = IF nextOtp \in DOMAIN r.otps THEN nextOtp + 1 ELSE nextOtp
     /\ last' = Outcome("Start", r.tok, r.res, r.idp, 0)
     /\ UNCHANGED <<now, proc, tally>>

Issue(tok, code) ==
  /\ tok \in DOMAIN reqs
  /\ \E r \in {GenerateOtp(reqs, otps, tok, code, now, nextOtp)} :
     /\ reqs' = r.reqs
     /\ otps' = r.otps
     /\ nextOtp' = IF nextOtp \in DOMAIN r.otps THEN nextOtp + 1 ELSE nextOtp
     /\ last' = Outcome("Issue", tok, r.res, r.idp, r.cmp)
     /\ UNCHANGED <<now, nextTok, proc, tally>>

Verify(tok, code) ==
  \E r \in {OtpValidationPost(reqs, otps, tok, code, now)} :
     /\ reqs' = r.reqs
     /\ otps' = r.otps
     /\ last' = Outcome("Verify", tok, r.res, r.idp, r.cmp)
     /\ UNCHANGED <<now, nextTok, nextOtp, proc, tally>>

Commit(tok, idp) ==
  \E r \in {PasswordResetConfirmPost(reqs, otps, tok, idp, now)} :
     /\ reqs' = r.reqs
     /\ otps' = r.otps
     /\ last' = Outcome("Commit", tok, r.res, r.idp, r.cmp)
     /\ UNCHANGED <<now, nextTok, nextOtp, proc, tally>>

(* Variant of the deletion that leaves the OTP rows in place *)
DeleteRequests_NoCascade(rq, ot, dead) ==
  [reqs |-> [k \in DOMAIN rq \ dead |-> rq[k]], otps |-> ot]

(* QuerySet.delete() of the request rows dead: the OTP rows that reference
   them go with them (OtpToken.reset_request, on_delete=CASCADE) *)
DeleteRequests(rq, ot, dead) ==
  [reqs |-> [k \in DOMAIN rq \ dead |-> rq[k]],
   otps |-> [k \in {j \in DOMAIN ot : ot[j].reset_request \notin dead} |-> ot[k]]]

(* queryset.values_list('identifier', flat=True).distinct() *)
SelectedIdentifiers(rq, sel) == {rq[k].identifier : k \in sel}

(* PasswordResetRequestAdmin.reset_rate_limit on the selected rows: the
   requests of their identifiers created more than one hour ago are deleted *)
ResetRateLimitRows(rq, ot, sel, t) ==
  DeleteRequests(rq, ot, {k \in DOMAIN rq : /\ rq[k].identifier \in SelectedIdentifiers(rq, sel)
                                            /\ rq[k].created_at < t - Hours(1)})

(* PasswordResetRequestAdmin.unlock_user on the selected rows: every request
   of their identifiers is deleted *)
UnlockUserRows(rq, ot, sel) ==
  DeleteRequests(rq, ot, {k \in DOMAIN rq : rq[k].identifier \in SelectedIdentifiers(rq, sel)})

ExpireOldRequests(sel) ==
  /\ sel # {}
  /\ reqs' = ExpireSelected(reqs, sel)
  /\ last' = Quiet("ExpireOldRequests")
  /\ UNCHANGED <<now, otps, nextTok, nextOtp, proc, tally>>

(* Variant of reset_attempts that puts the status back and keeps the counter *)
ResetSelected_StatusOnly(ot, sel) ==
  [k \in DOMAIN ot |->
     IF k \in sel /\ ot[k].status = "exceeded_attempts"
     THEN [ot[k] EXCEPT !.status = "pending"]
     ELSE ot[k]]

(* OtpTokenAdmin.reset_attempts on the selected rows *)
ResetSelected(ot, sel) ==
  [k \in DOMAIN ot |->
     IF k \in sel /\ ot[k].status = "exceeded_attempts"
     THEN [ot[k] EXCEPT !.attempts = 0, !.status = "pending"]
     ELSE IF k \in sel /\ ot[k].status = "pending" /\ ot[k].attempts >= MAX_OTP_ATTEMPTS
     THEN [ot[k] EXCEPT !.attempts = 0]
     ELSE ot[k]]

ResetAttempts(sel) ==
  /\ sel # {}
  /\ otps' = ResetSelected(otps, sel)
  /\ last' = Quiet("ResetAttempts")
  /\ UNCHANGED <<now, reqs, nextTok, nextOtp, proc, tally>>

----------------------------------------------------------------------------
(* Request handlers that run at the same time.  A handler reads the rows,
   works on its in-memory copies and writes back the fields its save() names;
   proc[h] is what handler h holds between its read and its write, tally
   counts per OTP row the code comparisons made and the wrong codes
   submitted, and per request the successful reset_password calls. *)

Handlers == 1..MaxHandlers

(* the handlers that serve the Start calls *)
Starters == (MaxHandlers + 1)..(MaxHandlers + MaxStarters)

Tokens == 1..MaxRequests

OtpIds == 1..MaxOtps

Idle ==
  [pc |-> "idle", op |-> "none", tok |-> 0, code |-> <<>>, otp |-> 0, attempts |-> 0,
   rstatus |-> "none", res |-> "none", ident |-> "none"]

Done(op, tok, res) == [Idle EXCEPT !.pc = "done", !.op = op, !.tok = tok, !.res = res]

NoTally ==
  [cmp |-> [k \in OtpIds |-> 0], wrong |-> [k \in OtpIds |-> 0],
   applied |-> [k \in Tokens |-> 0]]

(* validate_otp up to and including its query for the newest pending OTP *)
VerifyLoad(rq, ot, tok, code, t) ==
  LET p == NewestPending(ot, tok)
  IN IF RequestIsExpired(rq[tok], t)
     THEN [reqs |-> [rq EXCEPT ![tok].status = "expired"],
           hrec |-> Done("Verify", tok, "RequestExpired")]
     ELSE IF p = 0
     THEN [reqs |-> rq, hrec |-> Done("Verify", tok, "NoPendingChallenge")]
     ELSE [reqs |-> rq,
           hrec |-> [pc |-> "loaded", op |-> "Verify", tok |-> tok, code |-> code, otp |-> p,
                     attempts |-> ot[p].attempts, rstatus |-> rq[tok].status,
                     res |-> "none", ident |-> "none"]]

(* validate_otp after the query: the checks and the comparison on the
   in-memory OTP, then save(update_fields=...) of what it changed *)
VerifySave(rq, ot, h, t) ==
  LET p == h.otp
      copy == [ot[p] EXCEPT !.attempts = h.attempts, !.status = "pending"]
      inc == IncrementAttempts(copy)
  IN IF OtpIsExpired(copy, t)
     THEN [reqs |-> rq, otps |-> [ot EXCEPT ![p].status = "expired"],
           res |-> "ChallengeExpired", compared |-> FALSE, wrong |-> FALSE]
     ELSE IF HasExceededAttempts(copy)
     THEN [reqs |-> rq, otps |-> ot, res |-> "AttemptsExceeded",
           compared |-> FALSE, wrong |-> FALSE]
     ELSE IF copy.code # Strip(h.code)
     THEN [reqs |-> rq,
           otps |-> [ot EXCEPT ![p].attempts = inc.attempts, ![p].status = inc.status],
           res |-> "invalid", compared |-> TRUE, wrong |-> TRUE]
     ELSE [reqs |-> [rq EXCEPT ![h.tok].status = "otp_validated"],
           otps |-> [ot EXCEPT ![p].status = "validated", ![p].validated_at = t],
           res |-> "valid", compared |-> TRUE, wrong |-> FALSE]

(* confirm_password_reset up to and including its query for a validated OTP *)
CommitLoad(rq, ot, tok, t) ==
  IF RequestIsExpired(rq[tok], t)
  THEN [reqs |-> [rq EXCEPT ![tok].status = "expired"],
        hrec |-> Done("Commit", tok, "RequestExpired")]
  ELSE IF ValidatedOtps(ot, tok, t) = {}
  THEN [reqs |-> rq, hrec |-> Done("Commit", tok, "NotVerified")]
  ELSE IF rq[tok].system \notin {"zoho", "both"}
  THEN [reqs |-> rq, hrec |-> Done("Commit", tok, "ok")]
  ELSE [reqs |-> rq,
        hrec |-> [Idle EXCEPT !.pc = "authorized", !.op = "Commit", !.tok = tok,
                              !.rstatus = rq[tok].status]]

(* confirm_password_reset after the query: the reset_password call, answered
   idp, and the save() that follows it; the status tested on a failure is
   the one the handler read *)
CommitSave(rq, h, idp, t) ==
  LET tok == h.tok
      back == IF h.rstatus # "otp_validated"
              THEN [rq EXCEPT ![tok].status = "otp_validated"] ELSE rq
  IN CASE idp = "ok" ->
            [reqs |-> [rq EXCEPT ![tok] = OnRemoteSuccess(rq[tok], t)], res |-> "ok",
             applied |-> TRUE]
       [] idp = "false" -> [reqs |-> back, res |-> "RemoteCommitFailed", applied |-> FALSE]
       [] idp = "zoho_error" -> [reqs |-> back, res |-> "ZohoException", applied |-> FALSE]
       [] OTHER -> [reqs |-> rq, res |-> "internal_error", applied |-> FALSE]

VerifyBegin(h, tok, code) ==
  /\ proc[h].pc = "idle"
  /\ tok \in DOMAIN reqs
  /\ \E r \in {VerifyLoad(reqs, otps, tok, code, now)} :
       /\ reqs' = r.reqs
       /\ proc' = [proc EXCEPT ![h] = r.hrec]
  /\ UNCHANGED <<now, otps, nextTok, nextOtp, last, tally>>

VerifyEnd(h) ==
  /\ proc[h].pc = "loaded"
  /\ \E r \in {VerifySave(reqs, otps, proc[h], now)} :
       /\ reqs' = r.reqs
       /\ otps' = r.otps
       /\ proc' = [proc EXCEPT ![h] = Done("Verify", proc[h].tok, r.res)]
       /\ tally' = [tally EXCEPT
                      !.cmp[proc[h].otp] = @ + (IF r.compared THEN 1 ELSE 0),
                      !.wrong[proc[h].otp] = @ + (IF r.wrong THEN 1 ELSE 0)]
  /\ UNCHANGED <<now, nextTok, nextOtp, last>>

CommitBegin(h, tok) ==
  /\ proc[h].pc = "idle"
  /\ tok \in DOMAIN reqs
  /\ \E r \in {CommitLoad(reqs, otps, tok, now)} :
       /\ reqs' = r.reqs
       /\ proc' = [proc EXCEPT ![h] = r.hrec]
  /\ UNCHANGED <<now, otps, nextTok, nextOtp, last, tally>>

CommitEnd(h, idp) ==
  /\ proc[h].pc = "authorized"
  /\ \E r \in {CommitSave(reqs, proc[h], idp, now)} :
       /\ reqs' = r.reqs
       /\ proc' = [proc EXCEPT ![h] = Done("Commit", proc[h].tok, r.res)]
       /\ tally' = [tally EXCEPT
                      !.applied[proc[h].tok] = @ + (IF r.applied THEN 1 ELSE 0)]
  /\ UNCHANGED <<now, otps, nextTok, nextOtp, last>>

(* request_password_reset up to and including its count of the recent
   requests of identifier i *)
StartBegin(h, i) ==
  /\ proc[h].pc = "idle"
  /\ proc' = [proc EXCEPT ![h] =
                IF RateLimited(reqs, i, now)
                THEN Done("Start", 0, "RateLimited")
                ELSE [Idle EXCEPT !.pc = "counted", !.op = "Start", !.ident = i]]
  /\ UNCHANGED <<now, reqs, otps, nextTok, nextOtp, last, tally>>

(* the rest of PasswordResetRequestView.post for a handler whose count was
   below the limit *)
StartEnd(h, sys, resolve, sms, code) ==
  /\ proc[h].pc = "counted"
  /\ \E r \in {PostAfterRequest(CreateResetRequest(reqs, proc[h].ident, sys, resolve, now,
                                                  nextTok),
                                otps, sms, code, now, nextTok, nextOtp)} :
       /\ reqs' = r.reqs
       /\ otps' = r.otps
       /\ nextTok' = IF nextTok \in DOMAIN r.reqs THEN nextTok + 1 ELSE nextTok
       /\ nextOtp' = IF nextOtp \in DOMAIN r.otps THEN nextOtp + 1 ELSE nextOtp
       /\ proc' = [proc EXCEPT ![h] = Done("Start", r.tok, r.res)]
  /\ UNCHANGED <<now, last, tally>>

(* the handler has answered and is free for the next call *)
Return(h) ==
  /\ proc[h].pc = "done"
  /\ proc' = [proc EXCEPT ![h] = Idle]
  /\ UNCHANGED <<now, reqs, otps, nextTok, nextOtp, last, tally>>

ResetRateLimit(sel) ==
  /\ sel # {}
  /\ \E r \in {ResetRateLimitRows(reqs, otps, sel, now)} : reqs' = r.reqs /\ otps' = r.otps
  /\ last' = Quiet("ResetRateLimit")
  /\ UNCHANGED <<now, nextTok, nextOtp, proc, tally>>

UnlockUser(sel) ==
  /\ sel # {}
  /\ \E r \in {UnlockUserRows(reqs, otps, sel)} : reqs' = r.reqs /\ otps' = r.otps
  /\ last' = Quiet("UnlockUser")
  /\ UNCHANGED <<now, nextTok, nextOtp, proc, tally>>

(* the wall clock advances to a later instant *)
Tick(t) ==
  /\ t > now
  /\ now' = t
  /\ last' = Quiet("Tick")
  /\ UNCHANGED <<reqs, otps, nextTok, nextOtp, proc, tally>>

Init ==
  /\ now = 0
  /\ reqs = <<>>
  /\ otps = <<>>
  /\ nextTok = 1
  /\ nextOtp = 1
  /\ last = Quiet("Init")
  /\ proc = [h \in Handlers \cup Starters |-> Idle]
  /\ tally = NoTally

(* no more than maxReq requests and maxOtp OTP rows are ever created *)
Within(maxReq, maxOtp) == nextTok' <= maxReq + 1 /\ nextOtp' <= maxOtp + 1

(* Codes are interchangeable: a new row draws a code already stored or the
   least code not yet stored *)
CodeChoices ==
  LET used == {n \in 0..MaxCode : \E k \in DOMAIN otps : otps[k].code = FormatCode(n)}
  IN {FormatCode(n) : n \in {m \in 0..MaxCode : \A j \in 0..(m - 1) : j \in used}}

(* The workflow of the requests of one identifier *)
Next ==
  \/ \E t \in ClockSamples : Tick(t)
  \/ \E i \in FlowIdentifiers, sys \in SYSTEM_CHOICES, resolve \in ResolveOutcomes,
        sms \in SmsOutcomes, code \in CodeChoices :
       Start(i, sys, resolve, sms, code) /\ Within(MaxRequests, MaxOtps)
  \/ \E tok \in Tokens, code \in CodeChoices : Issue(tok, code) /\ Within(MaxRequests, MaxOtps)
  \/ \E tok \in Tokens, code \in SubmittedCodes \cup MalformedCodes : Verify(tok, code)
  \/ \E tok \in Tokens, idp \in SetCredentialOutcomes : Commit(tok, idp)
  \/ \E sel \in SUBSET (DOMAIN reqs) : ExpireOldRequests(sel)
  \/ \E sel \in SUBSET (DOMAIN otps) : ResetAttempts(sel)

Spec == Init /\ [][Next]_vars

(* The request log of two identifiers under repeated Start calls *)
NextRate ==
  \/ \E t \in ClockSamples : Tick(t)
  \/ \E i \in Identifiers, sys \in {"zoho", "ad"}, resolve \in ResolveOutcomes,
        sms \in SmsOutcomes :
       Start(i, sys, resolve, sms, FormatCode(0)) /\ Within(RateMaxRequests, RateMaxRequests)

SpecRate == Init /\ [][NextRate]_vars

(* The request log of two identifiers under Start calls and the two
   administrative deletions *)
NextAdmin ==
  \/ \E t \in ClockSamples : Tick(t)
  \/ \E i \in Identifiers, sms \in SmsOutcomes :
       Start(i, "zoho", "phone", sms, FormatCode(0)) /\ Within(RateMaxRequests, RateMaxRequests)
  \/ \E sel \in SUBSET (DOMAIN reqs) : ResetRateLimit(sel)
  \/ \E sel \in SUBSET (DOMAIN reqs) : UnlockUser(sel)

SpecAdmin == Init /\ [][NextAdmin]_vars

(* ClockSamples and the middle of an OTP lifetime *)
FineClockSamples == ClockSamples \cup {OTP_EXPIRY_MINUTES \div 2}

(* a token that no request ever has *)
UnknownToken == MaxRequests + 1

(* One request with one challenge, verified and committed at leisure, also
   under a token that is not stored *)
NextRetry ==
  \/ \E t \in FineClockSamples : Tick(t)
  \/ \E sys \in {"zoho", "both"}, sms \in SmsOutcomes :
       Start("a@x", sys, "phone", sms, FormatCode(0)) /\ Within(MaxRequests, MaxRequests)
  \/ \E tok \in Tokens \cup {UnknownToken}, code \in Codes : Verify(tok, code)
  \/ \E tok \in Tokens \cup {UnknownToken}, idp \in SetCredentialOutcomes : Commit(tok, idp)

SpecRetry == Init /\ [][NextRetry]_vars

(* no more than MaxCompared comparisons per OTP row and MaxApplied
   successful reset_password calls per request are ever made *)
WithinTally ==
  /\ \A k \in OtpIds : tally'.cmp[k] <= MaxCompared
  /\ \A tok \in Tokens : tally'.applied[tok] <= MaxApplied

(* Handlers working at the same time on the requests of one identifier *)
NextRace ==
  \/ Start("a@x", "zoho", "phone", "sent", FormatCode(0)) /\ Within(MaxRequests, MaxRequests)
  \/ \E h \in Handlers, tok \in Tokens, code \in Codes : VerifyBegin(h, tok, code)
  \/ \E h \in Handlers : VerifyEnd(h) /\ WithinTally
  \/ \E h \in Handlers, tok \in Tokens : CommitBegin(h, tok)
  \/ \E h \in Handlers, idp \in SetCredentialOutcomes : CommitEnd(h, idp) /\ WithinTally
  \/ \E h \in Handlers : Return(h)

SpecRace == Init /\ [][NextRace]_vars

----------------------------------------------------------------------------
(* Notions the properties below are stated in *)

(* Start calls of one identifier served by handlers working at the same time *)
NextStartRace ==
  \/ \E t \in ClockSamples : Tick(t)
  \/ \E h \in Starters, i \in FlowIdentifiers : StartBegin(h, i)
  \/ \E h \in Starters, resolve \in {"phone", "none"} :
       StartEnd(h, "zoho", resolve, "sent", FormatCode(0))
       /\ Within(RaceMaxRequests, RaceMaxRequests)
  \/ \E h \in Starters : Return(h)

SpecStartRace == Init /\ [][NextStartRace]_vars

PairTokens == 1..PairRequests

(* Two requests of one identifier, each issued, verified and committed in
   any order *)
NextPair ==
  \/ \E t \in ClockSamples \ {OTP_EXPIRY_MINUTES} : Tick(t)
  \/ Start("a@x", "zoho", "phone", "sent", FormatCode(0)) /\ Within(PairRequests, PairOtps)
  \/ \E tok \in PairTokens : Issue(tok, FormatCode(0)) /\ Within(PairRequests, PairOtps)
  \/ \E tok \in PairTokens, code \in Codes : Verify(tok, code)
  \/ \E tok \in PairTokens, idp \in {"ok", "false"} : Commit(tok, idp)

SpecPair == Init /\ [][NextPair]_vars

WorkflowOps == {"Issue", "Verify", "Commit"}

(* the step is the workflow operation op on the stored request tok *)
StepOn(op, tok) == tok \in DOMAIN reqs /\ last'.op = op /\ last'.tok = tok

TimeExpired(tok) == now > reqs[tok].expires_at

ChallengesOf(tok) == {k \in DOMAIN otps : otps[k].reset_request = tok}

HasValidatedChallenge(tok) == \E k \in ChallengesOf(tok) : otps[k].status = "validated"

(* k is the pending challenge of its request that was created last *)
IsNewestPendingChallenge(k) ==
  /\ otps[k].status = "pending"
  /\ \A j \in ChallengesOf(otps[k].reset_request) : otps[j].status = "pending" => j <= k

----------------------------------------------------------------------------
(* C1 - Commit idempotence: when the last operation was a Commit that
   succeeded on a request with a single validated challenge, the request is
   completed, and a second Commit called right after it fails with
   NotVerified, calls the identity provider not at all and leaves the request
   as it is, whatever the identity provider would answer. *)
C1_SecondCommitRejected ==
  \A tok \in DOMAIN reqs :
    ( /\ last.op = "Commit" /\ last.tok = tok /\ last.res = "ok"
      /\ Cardinality({k \in ChallengesOf(tok) : otps[k].status = "validated"}) = 1 )
    => /\ reqs[tok].status = "completed"
       /\ \A idp \in SetCredentialOutcomes :
            LET second == ConfirmPasswordReset(reqs, otps, tok, idp, now)
            IN /\ second.res = "NotVerified"
               /\ second.idp = "none"
               /\ second.reqs[tok].status = reqs[tok].status
               /\ second.reqs[tok].completed_at = reqs[tok].completed_at

(* C2 - A Commit on a request that is not time-expired calls the identity
   provider only if the stored status is otp_validated and the request has a
   validated challenge; otherwise it fails with NotVerified, calls nothing and
   changes no stored state. *)
C2_CommitOnlyWhenOtpValidated ==
  [][ \A tok \in DOMAIN reqs :
        (StepOn("Commit", tok) /\ ~TimeExpired(tok))
        => LET authorized == reqs[tok].status = "otp_validated" /\ HasValidatedChallenge(tok)
           IN /\ last'.idp = "set" => authorized
              /\ ~authorized => /\ last'.res = "NotVerified"
                                /\ last'.idp = "none"
                                /\ reqs' = reqs /\ otps' = otps ]_vars

(* C3 - Three wrong codes in a row leave a challenge with attempts = 3 and
   status exceeded_attempts, and the next Verify on that request, whatever
   code it submits, fails with AttemptsExceeded. *)
C3_FourthSubmissionAttemptsExceeded ==
  [][ /\ \A k \in DOMAIN otps' :
           otps'[k].attempts = ATTEMPTS_CEILING => otps'[k].status = "exceeded_attempts"
      /\ \A tok \in DOMAIN reqs :
           ( /\ StepOn("Verify", tok) /\ ~TimeExpired(tok)
             /\ last.op = "Verify" /\ last.tok = tok /\ last.res = "invalid"
             /\ otps[last.cmp].attempts = ATTEMPTS_CEILING )
           => last'.res = "AttemptsExceeded" ]_vars

(* C4 as claimed - every challenge that is not yet validated, has fewer than
   3 failed attempts and has not passed its expires_at is validated by a
   Verify with its stored code; after a challenge is validated every Verify
   on its request fails with NoPendingChallenge. *)
C4_EveryChallengeVerifiable ==
  [][ \A k \in DOMAIN otps :
        LET tok == otps[k].reset_request
        IN /\ ( /\ Verify(tok, otps[k].code)
                /\ otps[k].status # "validated"
                /\ otps[k].attempts < ATTEMPTS_CEILING
                /\ now <= otps[k].expires_at )
              => (last'.res = "valid" /\ otps'[k].status = "validated")
           /\ (StepOn("Verify", tok) /\ otps[k].status = "validated")
              => last'.res = "NoPendingChallenge" ]_vars

(* C4 as amended - a Verify with the stored code of the newest pending
   challenge of a request, no later than the expires_at of the challenge and
   of the request, returns valid=true and validates that challenge; a Verify
   returns valid=true only for a challenge that was pending and is validated
   by it, and a validated challenge stays validated, so a challenge yields
   valid=true at most once; a Verify on a request that is not time-expired
   and has no pending challenge fails with NoPendingChallenge. *)
C4_NewestChallengeVerifiableOnce ==
  /\ [](\A tok \in DOMAIN reqs, code \in SubmittedCodes :
          LET r == OtpValidationPost(reqs, otps, tok, code, now)
          IN /\ \A k \in ChallengesOf(tok) :
                  ( /\ Strip(code) = otps[k].code
                    /\ IsNewestPendingChallenge(k)
                    /\ otps[k].attempts < ATTEMPTS_CEILING
                    /\ now <= otps[k].expires_at
                    /\ now <= reqs[tok].expires_at )
                  => (r.res = "valid" /\ r.cmp = k /\ r.otps[k].status = "validated")
             /\ r.res = "valid"
                  => (otps[r.cmp].status = "pending" /\ r.otps[r.cmp].status = "validated")
             /\ (~TimeExpired(tok) /\ \A k \in ChallengesOf(tok) : otps[k].status # "pending")
                  => r.res = "NoPendingChallenge")
  /\ [][ \A k \in DOMAIN otps :
           otps[k].status = "validated" => otps'[k].status = "validated" ]_vars

(* C4 witness: a Verify has just validated the newer of two challenges of a
   request while the older one is still pending *)
C4_Witness ==
  /\ last.op = "Verify" /\ last.res = "valid"
  /\ otps[last.cmp].status = "validated"
  /\ \E j \in ChallengesOf(last.tok) : j < last.cmp /\ otps[j].status = "pending"

(* C5 - completed is a sink: no Issue, Verify or Commit changes the status or
   the completed_at of a request whose stored status is completed. *)
C5_CompletedIsSink ==
  [][ \A tok \in DOMAIN reqs :
        (reqs[tok].status = "completed" /\ last'.op \in WorkflowOps)
        => /\ reqs'[tok].status = "completed"
           /\ reqs'[tok].completed_at = reqs[tok].completed_at ]_vars

(* C6 - expired is a sink: no Issue, Verify or Commit moves a request whose
   stored status is expired to another status, validates one of its
   challenges or calls the identity provider for it. *)
C6_ExpiredIsSink ==
  [][ \A tok \in DOMAIN reqs :
        (reqs[tok].status = "expired" /\ last'.op \in WorkflowOps)
        => /\ reqs'[tok].status = "expired"
           /\ \A k \in ChallengesOf(tok) :
                otps'[k].status = "validated" => otps[k].status = "validated"
           /\ ~(last'.tok = tok /\ last'.idp = "set" /\ last' # last) ]_vars

(* C7 - When the identity-provider call of a Commit on a request in
   otp_validated fails (returns False or raises), the failure is reported,
   the request stays otp_validated with completed_at untouched, no challenge
   changes and the request still holds a validated, unexpired challenge;
   and every Commit on a request in otp_validated whose identity-provider
   call succeeds completes the request without touching a challenge. *)
C7_RemoteFailureKeepsOtpValidated ==
  \A tok \in DOMAIN reqs, idp \in SetCredentialOutcomes :
    LET r == PasswordResetConfirmPost(reqs, otps, tok, idp, now)
    IN (reqs[tok].status = "otp_validated" /\ r.idp = "set")
       => IF idp = "ok"
          THEN /\ r.res = "ok"
               /\ r.reqs[tok].status = "completed"
               /\ r.reqs[tok].completed_at = now
               /\ r.otps = otps
          ELSE /\ r.res \in {"RemoteCommitFailed", "ZohoException", "internal_error"}
               /\ r.reqs[tok].status = "otp_validated"
               /\ r.reqs[tok].completed_at = reqs[tok].completed_at
               /\ r.otps = otps
               /\ \E k \in ChallengesOf(tok) :
                    r.otps[k].status = "validated" /\ r.otps[k].expires_at > now

(* C7 witness: a Commit has just failed at the identity provider and the
   request is still otp_validated, never completed, with its validated
   challenge *)
C7_Witness ==
  /\ last.op = "Commit" /\ last.idp = "set"
  /\ last.res \in {"RemoteCommitFailed", "ZohoException"}
  /\ reqs[last.tok].status = "otp_validated"
  /\ reqs[last.tok].completed_at = NULL
  /\ HasValidatedChallenge(last.tok)

(* the requests of identifier i created within the hour before now *)
InTrailingHour(i) ==
  {k \in DOMAIN reqs : reqs[k].identifier = i /\ now - reqs[k].created_at <= 60}

(* C8 - A Start for an identifier with fewer than 3 requests in the trailing
   hour, for which the identity provider resolves a phone, is accepted and
   stores one request; a Start for an identifier that has 3 there is
   rejected with RateLimited, stores no request and no challenge and calls
   neither the identity provider nor the SMS client; and no identifier ever
   has more than 3 requests in a trailing hour. *)
C8_FourthStartRateLimited ==
  \A i \in Identifiers :
    /\ Cardinality(InTrailingHour(i)) <= 3
    /\ \A sys \in SYSTEM_CHOICES, resolve \in ResolveOutcomes, sms \in SmsOutcomes :
         LET r == PasswordResetRequestPost(reqs, otps, i, sys, resolve, sms,
                                           FormatCode(0), now, nextTok, nextOtp)
         IN /\ Cardinality(InTrailingHour(i)) >= 3
               => /\ r.res = "RateLimited" /\ r.tok = 0
                  /\ r.idp = "none" /\ r.sms = "none"
                  /\ r.reqs = reqs /\ r.otps = otps
            /\ (Cardinality(InTrailingHour(i)) < 3 /\ sys \in {"zoho", "both"}
                  /\ resolve = "phone")
               => /\ r.res # "RateLimited" /\ r.tok = nextTok
                  /\ DOMAIN r.reqs = DOMAIN reqs \cup {nextTok}
                  /\ r.reqs[nextTok].identifier = i
                  /\ r.reqs[nextTok].status = "pending"

(* C8 witness: the 4th Start of an identifier within one hour has just been
   rejected *)
C8_Witness ==
  /\ last.op = "Start" /\ last.res = "RateLimited"
  /\ \E i \in Identifiers :
       /\ Cardinality(InTrailingHour(i)) = 3
       /\ \E k \in InTrailingHour(i) : reqs[k].created_at < now

(* the results of the three workflow operations on request tok, stored with
   the rows rq, at time t, over every code and every identity-provider answer *)
WorkflowResults(rq, tok, t) ==
  {GenerateOtp(rq, otps, tok, code, t, nextOtp) : code \in Codes}
  \cup {OtpValidationPost(rq, otps, tok, code, t) : code \in SubmittedCodes}
  \cup {PasswordResetConfirmPost(rq, otps, tok, idp, t) : idp \in SetCredentialOutcomes}

(* C9 - An Issue, Verify or Commit after expires_at on a request stored as
   pending or otp_validated fails with RequestExpired and stores status
   expired; it compares no code, changes and creates no challenge and calls
   no identity provider. *)
C9_LateOperationExpiresRequest ==
  \A tok \in DOMAIN reqs :
    (TimeExpired(tok) /\ reqs[tok].status \in {"pending", "otp_validated"})
    => \A r \in WorkflowResults(reqs, tok, now) :
         /\ r.res = "RequestExpired"
         /\ r.reqs[tok].status = "expired"
         /\ r.otps = otps
         /\ r.cmp = 0 /\ r.idp = "none"

(* C9 witness: a Verify 70 minutes after the creation of a request that had a
   pending challenge has just failed with RequestExpired *)
C9_Witness ==
  /\ last.op = "Verify" /\ last.res = "RequestExpired"
  /\ reqs[last.tok].status = "expired"
  /\ now = reqs[last.tok].created_at + 70
  /\ \E k \in ChallengesOf(last.tok) : otps[k].status = "pending"

(* C10 - Whatever status is stored for a request (pending, otp_validated,
   completed, expired or failed), an Issue, Verify or Commit at the current
   time or at any later time, when that time is past expires_at, fails with
   RequestExpired, validates and creates no challenge and calls no identity
   provider. *)
C10_NeverValidPastExpiry ==
  \A tok \in DOMAIN reqs, status \in RESET_REQUEST_STATUS_CHOICES :
    \A t \in {u \in {now} \cup ClockSamples : u >= now /\ u > reqs[tok].expires_at} :
      \A r \in WorkflowResults([reqs EXCEPT ![tok].status = status], tok, t) :
        /\ r.res = "RequestExpired"
        /\ r.otps = otps
        /\ r.cmp = 0 /\ r.idp = "none"

(* C10 witness: a Commit after expires_at on a request that had been completed
   has just failed with RequestExpired *)
C10_Witness ==
  /\ last.op = "Commit" /\ last.res = "RequestExpired"
  /\ now > reqs[last.tok].expires_at
  /\ reqs[last.tok].completed_at # NULL

(* the validated challenges of request tok *)
ValidatedChallengesOf(tok) == {k \in ChallengesOf(tok) : otps[k].status = "validated"}

(* C11 - When a request that is not time-expired has validated challenges
   and every one of them has passed its own expires_at, a Commit fails with
   NotVerified whatever the identity provider would answer, calls no
   identity provider and changes neither the request nor a challenge. *)
C11_StaleChallengeCannotAuthorize ==
  \A tok \in DOMAIN reqs, idp \in SetCredentialOutcomes :
    LET r == PasswordResetConfirmPost(reqs, otps, tok, idp, now)
    IN ( /\ ~TimeExpired(tok)
         /\ ValidatedChallengesOf(tok) # {}
         /\ \A k \in ValidatedChallengesOf(tok) : otps[k].expires_at < now )
       => /\ r.res = "NotVerified" /\ r.idp = "none"
          /\ r.reqs = reqs /\ r.otps = otps

(* C11 witness: a Commit has just failed with NotVerified on a request that
   is inside its own lifetime and whose validated challenge is past its
   expires_at *)
C11_Witness ==
  /\ last.op = "Commit" /\ last.res = "NotVerified" /\ last.idp = "none"
  /\ last.tok \in DOMAIN reqs
  /\ now <= reqs[last.tok].expires_at
  /\ reqs[last.tok].status = "otp_validated"
  /\ ValidatedChallengesOf(last.tok) # {}
  /\ \A k \in ValidatedChallengesOf(last.tok) : otps[k].expires_at < now

(* the results Commit reports when the identity-provider call has failed *)
RemoteFailures == {"RemoteCommitFailed", "ZohoException", "internal_error"}

(* the last operation was a Commit on tok that failed at the identity
   provider, and since then at most the clock has moved *)
RetryAfterRemoteFailure(tok) ==
  /\ last.op = "Commit" /\ last.tok = tok /\ last.idp = "set"
  /\ last.res \in RemoteFailures
  /\ reqs' = reqs /\ otps' = otps

(* C12 as claimed - after a Commit that failed remotely, a retried Commit at
   any time up to the request's expires_at reaches the identity provider. *)
C12_RetryUpToRequestTtl ==
  [][ \A tok \in DOMAIN reqs, idp \in SetCredentialOutcomes :
        (RetryAfterRemoteFailure(tok) /\ now' <= reqs[tok].expires_at)
        => PasswordResetConfirmPost(reqs', otps', tok, idp, now').idp = "set" ]_vars

(* C12 as amended - after a Commit that failed remotely, a retried Commit
   reaches the identity provider, without a new Verify, exactly as long as
   a validated challenge of the request has its expires_at still ahead; at
   or after that instant the retry fails with NotVerified, though the
   request's own expires_at has not passed; a retry that reaches the
   identity provider and succeeds there completes the request. *)
C12_RetryUpToChallengeTtl ==
  [][ \A tok \in DOMAIN reqs, idp \in SetCredentialOutcomes :
        (RetryAfterRemoteFailure(tok) /\ now' <= reqs[tok].expires_at)
        => LET r == PasswordResetConfirmPost(reqs', otps', tok, idp, now')
               fresh == \E k \in ValidatedChallengesOf(tok) : otps[k].expires_at > now'
           IN /\ fresh => r.idp = "set"
              /\ ~fresh => (r.idp = "none" /\ r.res = "NotVerified")
              /\ (fresh /\ idp = "ok") => r.reqs[tok].status = "completed" ]_vars

(* C12 witness: a Commit retried some minutes after the challenge was
   validated has reached the identity provider and failed there again *)
C12_Witness ==
  /\ last.op = "Commit" /\ last.idp = "set" /\ last.res \in RemoteFailures
  /\ reqs[last.tok].status = "otp_validated"
  /\ \E k \in ValidatedChallengesOf(last.tok) :
       otps[k].validated_at < now /\ now < otps[k].expires_at

(* C13 - Round trip from any reachable state: a Start that is accepted and
   delivers code c stores a new request as pending; a Verify with c at a
   time t2 then stores otp_validated; a Commit at a time t3, inside the
   lifetime of the challenge, whose identity-provider call succeeds then
   stores completed, with completed_at = t3, non-null and not before
   created_at. *)
C13_RoundTrip ==
  \A i \in Identifiers, sys \in {"zoho", "both"}, c \in Codes, t2, t3 \in FineClockSamples :
    LET s1 == PasswordResetRequestPost(reqs, otps, i, sys, "phone", "sent", c, now,
                                       nextTok, nextOtp)
        s2 == OtpValidationPost(s1.reqs, s1.otps, nextTok, c, t2)
        s3 == PasswordResetConfirmPost(s2.reqs, s2.otps, nextTok, "ok", t3)
    IN (s1.res = "ok" /\ now <= t2 /\ t2 <= t3 /\ t3 < now + OTP_EXPIRY_MINUTES)
       => /\ s1.tok = nextTok /\ s1.reqs[nextTok].status = "pending"
          /\ s2.res = "valid" /\ s2.reqs[nextTok].status = "otp_validated"
          /\ s3.res = "ok" /\ s3.reqs[nextTok].status = "completed"
          /\ s3.reqs[nextTok].completed_at = t3
          /\ s3.reqs[nextTok].completed_at # NULL
          /\ s3.reqs[nextTok].created_at <= s3.reqs[nextTok].completed_at

(* C13 witness: a request created, verified and then committed some minutes
   after its creation is completed, with its completed_at stamped *)
C13_Witness ==
  /\ last.op = "Commit" /\ last.res = "ok" /\ last.idp = "set"
  /\ reqs[last.tok].status = "completed"
  /\ reqs[last.tok].completed_at = now
  /\ reqs[last.tok].created_at < reqs[last.tok].completed_at
  /\ \E k \in ValidatedChallengesOf(last.tok) : otps[k].attempts = 0

(* C14 - Whenever a Commit has just returned success, the request is stored
   as completed with completed_at non-null, whatever its target system. *)
C14_CommitSuccessMeansCompleted ==
  \A tok \in DOMAIN reqs :
    (last.op = "Commit" /\ last.tok = tok /\ last.res = "ok")
    => (reqs[tok].status = "completed" /\ reqs[tok].completed_at # NULL)

(* C15 - A Commit on a request whose target system is both leaves it
   completed only if the password was set in every target system, and
   otherwise leaves it otp_validated. *)
C15_BothCompletesOnlyWhenAllApplied ==
  \A tok \in DOMAIN reqs, idp \in SetCredentialOutcomes :
    LET r == ConfirmPasswordReset(reqs, otps, tok, idp, now)
        applied == TargetsApplied(reqs, otps, tok, idp, now)
    IN (reqs[tok].system = "both" /\ reqs[tok].status = "otp_validated" /\ ~TimeExpired(tok))
       => IF applied = TargetsOf("both")
          THEN r.reqs[tok].status = "completed"
          ELSE r.reqs[tok].status = "otp_validated"

(* C16 - With Verify handlers running at the same time, no more than 3 code
   comparisons are ever made against one challenge, and whenever no Verify
   handler is between its read and its write the stored attempts counter of
   a challenge equals the number of wrong codes compared against it. *)
C16_AttemptsCountEverySubmission ==
  \A k \in DOMAIN otps :
    /\ tally.cmp[k] <= ATTEMPTS_CEILING
    /\ (\A h \in Handlers : proc[h].pc # "loaded") => otps[k].attempts = tally.wrong[k]

(* C17 - When two Commit handlers hold the same token at the same time, both
   past the query for a validated challenge, and the identity provider
   answers both with success, the password is set by one of them only and
   the other fails with NotVerified. *)
C17_ConcurrentCommitAppliedOnce ==
  \A h1, h2 \in Handlers :
    ( /\ h1 # h2
      /\ proc[h1].pc = "authorized" /\ proc[h2].pc = "authorized"
      /\ proc[h1].tok = proc[h2].tok )
    => LET first == CommitSave(reqs, proc[h1], "ok", now)
           second == CommitSave(first.reqs, proc[h2], "ok", now)
       IN /\ ~(first.applied /\ second.applied)
          /\ second.res = "NotVerified"

(* C18 - In every step the attempts counter of a challenge does not decrease
   and does not exceed 3; a challenge whose counter is 3 has status
   exceeded_attempts, and no Verify compares a code against it. *)
C18_AttemptsMonotoneAndCapped ==
  [][ \A k \in DOMAIN otps :
        /\ otps'[k].attempts >= otps[k].attempts
        /\ otps'[k].attempts <= ATTEMPTS_CEILING
        /\ otps'[k].attempts = ATTEMPTS_CEILING => otps'[k].status = "exceeded_attempts"
        /\ otps[k].attempts = ATTEMPTS_CEILING
             => ~(last'.op = "Verify" /\ last'.cmp = k /\ otps' # otps) ]_vars

(* a challenge of the same request created after challenge k exists *)
Superseded(k) == \E j \in ChallengesOf(otps[k].reset_request) : j > k

(* C19 - No Verify changes the attempts counter of a superseded challenge
   or validates it, whatever the status of the newer challenges. *)
C19_SupersededNeverUsed ==
  [][ \A k \in DOMAIN otps :
        (Superseded(k) /\ last'.op = "Verify")
        => /\ otps'[k].attempts = otps[k].attempts
           /\ otps'[k].status = "validated" => otps[k].status = "validated" ]_vars

(* C20 - When a request has several pending challenges, a Verify compares
   the submitted code with the one created last or with none and changes no
   field of the others, which stay pending; with the code of the one created
   last, inside its lifetime and the request's, it validates that one. *)
C20_OnlyNewestPendingCompared ==
  \A tok \in DOMAIN reqs, code \in SubmittedCodes :
    LET P == {k \in ChallengesOf(tok) : otps[k].status = "pending"}
        r == OtpValidationPost(reqs, otps, tok, code, now)
    IN Cardinality(P) >= 2
       => \A n \in P :
            IsNewestPendingChallenge(n)
            => /\ r.cmp \in {0, n}
               /\ \A j \in P \ {n} : r.otps[j] = otps[j]
               /\ ( /\ Strip(code) = otps[n].code
                     /\ otps[n].attempts < ATTEMPTS_CEILING
                     /\ now <= otps[n].expires_at
                     /\ now <= reqs[tok].expires_at )
                  => (r.res = "valid" /\ r.cmp = n /\ r.otps[n].status = "validated")

(* C20 witness: a Verify with the code of the newer of two pending
   challenges has just validated it, and the older one, which holds another
   code, is pending with no attempt counted *)
C20_Witness ==
  /\ last.op = "Verify" /\ last.res = "valid"
  /\ otps[last.cmp].status = "validated"
  /\ \E j \in ChallengesOf(last.tok) :
       /\ j < last.cmp
       /\ otps[j].status = "pending" /\ otps[j].attempts = 0
       /\ otps[j].code # otps[last.cmp].code
       /\ otps[j].created_at = otps[last.cmp].created_at


----------------------------------------------------------------------------
(* the newest pending challenge of request tok can be compared with a code
   now: the request and the challenge are within their lifetimes and the
   challenge has attempts left *)
Eligible(tok) ==
  LET p == NewestPending(otps, tok)
  IN /\ ~RequestIsExpired(reqs[tok], now)
     /\ p # 0
     /\ ~OtpIsExpired(otps[p], now)
     /\ ~HasExceededAttempts(otps[p])

(* C21 - A Verify with a wrong code against an eligible challenge returns
   valid=false as a normal result, adds exactly 1 to that challenge's
   attempts, stores exceeded_attempts if and only if attempts thereby reaches
   3 (the challenge stays pending otherwise), leaves validated_at null and
   changes neither the request nor any other challenge. *)
C21_WrongCodeCountsOneAttempt ==
  \A tok \in DOMAIN reqs, code \in SubmittedCodes :
    LET p == NewestPending(otps, tok)
        r == OtpValidationPost(reqs, otps, tok, code, now)
    IN (Eligible(tok) /\ Strip(code) # otps[p].code)
       => /\ r.res = "invalid"
          /\ r.otps[p].attempts = otps[p].attempts + 1
          /\ r.otps[p].status =
               IF otps[p].attempts + 1 = ATTEMPTS_CEILING THEN "exceeded_attempts" ELSE "pending"
          /\ r.otps[p].validated_at = NULL
          /\ r.reqs = reqs
          /\ \A k \in DOMAIN otps \ {p} : r.otps[k] = otps[k]

(* the last operation was a Verify with the third wrong code for a challenge *)
C21_Witness ==
  /\ last.op = "Verify" /\ last.res = "invalid"
  /\ last.cmp \in DOMAIN otps
  /\ otps[last.cmp].status = "exceeded_attempts"
  /\ otps[last.cmp].attempts = ATTEMPTS_CEILING
  /\ otps[last.cmp].validated_at = NULL
  /\ reqs[last.tok].status = "pending"


(* C22 - Verify on a request that is not expired but whose newest pending
   challenge is past its own expires_at fails with ChallengeExpired, stores
   the status expired on that challenge, compares no code and changes neither
   the challenge's other fields, nor the request, nor any other challenge,
   also when the submitted code is the stored code. *)
C22_LateChallengeExpiresUncompared ==
  \A tok \in DOMAIN reqs, code \in SubmittedCodes :
    LET p == NewestPending(otps, tok)
        r == OtpValidationPost(reqs, otps, tok, code, now)
    IN (now <= reqs[tok].expires_at /\ p # 0 /\ now > otps[p].expires_at)
       => /\ r.res = "ChallengeExpired"
          /\ r.cmp = 0
          /\ r.otps = [otps EXCEPT ![p].status = "expired"]
          /\ r.otps[p].attempts = otps[p].attempts
          /\ r.reqs = reqs

(* the last operation was a Verify that found the challenge too old while
   the request was still within its lifetime *)
C22_Witness ==
  /\ last.op = "Verify" /\ last.res = "ChallengeExpired"
  /\ now <= reqs[last.tok].expires_at
  /\ reqs[last.tok].status = "pending"
  /\ \E k \in ChallengesOf(last.tok) : otps[k].status = "expired" /\ now > otps[k].expires_at


(* C23 - Issue succeeds only when the request is not time-expired and its
   stored status is pending or otp_validated; it then adds exactly one
   challenge (pending, attempts 0, expires_at = issue time + 10 minutes) and
   changes neither the request nor any existing challenge.  On a request
   within its lifetime whose status is completed, expired or failed, Issue
   fails with InvalidRequestState and changes nothing.  The stored status
   ranges over all status choices. *)
C23_IssueNeedsOpenRequest ==
  \A tok \in DOMAIN reqs, s \in RESET_REQUEST_STATUS_CHOICES, code \in Codes :
    LET rq == [reqs EXCEPT ![tok].status = s]
        inTime == now <= rq[tok].expires_at
        open == s \in {"pending", "otp_validated"}
        r == GenerateOtp(rq, otps, tok, code, now, nextOtp)
    IN /\ r.res = "ok" => (inTime /\ open)
       /\ (inTime /\ open)
          => /\ r.res = "ok"
             /\ DOMAIN r.otps = DOMAIN otps \cup {nextOtp}
             /\ nextOtp \notin DOMAIN otps
             /\ r.otps[nextOtp].reset_request = tok
             /\ r.otps[nextOtp].status = "pending"
             /\ r.otps[nextOtp].attempts = 0
             /\ r.otps[nextOtp].expires_at = now + 10
             /\ \A k \in DOMAIN otps : r.otps[k] = otps[k]
             /\ r.reqs = rq
       /\ (inTime /\ ~open)
          => /\ r.res = "InvalidRequestState"
             /\ r.otps = otps
             /\ r.reqs = rq

(* the last operation was an Issue that added a second challenge to a
   request whose first challenge had been validated *)
C23_Witness ==
  /\ last.op = "Issue" /\ last.res = "ok"
  /\ reqs[last.tok].status = "otp_validated"
  /\ \E k \in ChallengesOf(last.tok) :
       /\ otps[k].status = "pending" /\ otps[k].attempts = 0
       /\ otps[k].created_at = now /\ otps[k].expires_at = now + 10
  /\ Cardinality(ChallengesOf(last.tok)) = 2


(* C24 - The rate limit is a pure read over the request log: a Start at
   time now for identifier i is rejected with RateLimited if and only if at
   least 3 stored requests have identifier i and created_at within the hour
   before now, whatever status those rows have; a rejected Start changes no
   row and calls no collaborator.  Rows of other identifiers and rows older
   than one hour do not count. *)
C24_RateLimitIsWindowedCount ==
  \A i \in Identifiers, s \in RESET_REQUEST_STATUS_CHOICES, sys \in SYSTEM_CHOICES,
     resolve \in ResolveOutcomes :
    LET rq == [k \in DOMAIN reqs |-> [reqs[k] EXCEPT !.status = s]]
        r == RequestPasswordReset(rq, i, sys, resolve, now, nextTok)
    IN /\ r.res = "RateLimited" <=> Cardinality(InTrailingHour(i)) >= 3
       /\ r.res = "RateLimited" => (r.reqs = rq /\ r.idp = "none")

(* a Start has just been accepted for an identifier that has three requests
   older than one hour *)
C24_Witness ==
  /\ last.op = "Start" /\ last.res = "ok"
  /\ \E i \in Identifiers :
       /\ reqs[last.tok].identifier = i
       /\ Cardinality({k \in DOMAIN reqs : reqs[k].identifier = i}) = 4
       /\ Cardinality(InTrailingHour(i)) = 1


(* C25 - After reset_rate_limit is applied to rows of an identifier that has
   3 requests inside the trailing hour, the next Start for that identifier
   is accepted by the rate limiter. *)
C25_ResetRateLimitReopens ==
  \A i \in Identifiers, sel \in SUBSET (DOMAIN reqs) :
    (Cardinality(InTrailingHour(i)) = 3 /\ i \in SelectedIdentifiers(reqs, sel))
    => LET after == ResetRateLimitRows(reqs, otps, sel, now)
       IN \A sys \in SYSTEM_CHOICES :
            RequestPasswordReset(after.reqs, i, sys, "phone", now, nextTok).res = "ok"


(* C26 - After unlock_user on rows of an identifier no request and no OTP
   row of that identifier remains, the next Start for it is accepted, a
   Verify or Commit with any token issued before fails with RequestNotFound
   when the token was of that identifier, and the rows of the other
   identifiers, with their OTP rows, are as they were. *)
C26_UnlockUserPurgesIdentifier ==
  \A sel \in SUBSET (DOMAIN reqs) \ {{}} :
    LET ids == SelectedIdentifiers(reqs, sel)
        after == UnlockUserRows(reqs, otps, sel)
    IN /\ \A k \in DOMAIN after.reqs : after.reqs[k].identifier \notin ids
       /\ \A k \in DOMAIN after.otps : after.otps[k].reset_request \in DOMAIN after.reqs
       /\ \A k \in DOMAIN reqs :
            reqs[k].identifier \notin ids => (k \in DOMAIN after.reqs /\ after.reqs[k] = reqs[k])
       /\ \A k \in DOMAIN otps :
            reqs[otps[k].reset_request].identifier \notin ids
            => (k \in DOMAIN after.otps /\ after.otps[k] = otps[k])
       /\ \A i \in ids, sys \in SYSTEM_CHOICES :
            /\ RecentRequests(after.reqs, i, now) = 0
            /\ RequestPasswordReset(after.reqs, i, sys, "phone", now, nextTok).res = "ok"
       /\ \A tok \in DOMAIN reqs :
            reqs[tok].identifier \in ids
            => /\ \A code \in Codes :
                    OtpValidationPost(after.reqs, after.otps, tok, code, now).res
                      = "RequestNotFound"
               /\ \A idp \in SetCredentialOutcomes :
                    PasswordResetConfirmPost(after.reqs, after.otps, tok, idp, now).res
                      = "RequestNotFound"

(* unlock_user has just deleted the requests of a rate-limited identifier and
   their OTP rows; the other identifier's request and OTP row are still there *)
C26_Witness ==
  /\ last.op = "UnlockUser"
  /\ Cardinality(DOMAIN reqs) = 1
  /\ Cardinality(DOMAIN otps) = 1
  /\ nextTok >= MAX_RESET_REQUESTS_PER_HOUR + 2
  /\ \A k \in DOMAIN otps : otps[k].reset_request \in DOMAIN reqs


(* C27 - With handlers that serve Start calls for the same identifier at the
   same time, each counting and then inserting, the number of requests of
   the identifier created within one trailing hour exceeds the ceiling of 3
   by at most one. *)
C27_RaceAdmitsOneExtra ==
  \A i \in Identifiers : Cardinality(InTrailingHour(i)) <= MAX_RESET_REQUESTS_PER_HOUR + 1


(* C28 - When the SMS client fails during Start after the challenge was
   issued, the request is stored pending with exactly one challenge, which is
   pending with attempts 0; a Verify with that challenge's code at any
   instant up to its expires_at returns valid, and an Issue for the request
   succeeds and adds a second challenge. *)
C28_SmsFailureLeavesRedriveable ==
  (last.op = "Start" /\ last.res = "SMSException")
  => /\ last.tok \in DOMAIN reqs
     /\ reqs[last.tok].status = "pending"
     /\ Cardinality(ChallengesOf(last.tok)) = 1
     /\ \A k \in ChallengesOf(last.tok) :
          /\ otps[k].status = "pending"
          /\ otps[k].attempts = 0
          /\ \A t \in ClockSamples \cup {otps[k].expires_at} :
               (now <= t /\ t <= otps[k].expires_at)
               => LET v == OtpValidationPost(reqs, otps, last.tok, otps[k].code, t)
                  IN /\ v.res = "valid"
                     /\ v.otps[k].status = "validated"
                     /\ v.reqs[last.tok].status = "otp_validated"
     /\ \A code \in Codes :
          LET g == GenerateOtp(reqs, otps, last.tok, code, now, nextOtp)
          IN /\ g.res = "ok"
             /\ Cardinality({k \in DOMAIN g.otps : g.otps[k].reset_request = last.tok}) = 2

(* a Start has just failed on the SMS client and left its request and its
   challenge behind *)
C28_Witness ==
  /\ last.op = "Start" /\ last.res = "SMSException"
  /\ last.tok \in DOMAIN reqs
  /\ \E k \in ChallengesOf(last.tok) : otps[k].status = "pending" /\ otps[k].created_at = now


(* C29 - Anti-enumeration: in every state a sequence of Start calls leads
   to, a Start for an identifier without an account at the identity provider
   and a Start for an identifier whose account has no phone give the same
   result and leave the same rows; when the identifier is not rate-limited
   and the system uses Zoho the result is AccountNotFound and no request and
   no challenge is stored, so the rate limiter counts the same afterwards. *)
C29_AbsentAndPhonelessAlike ==
  \A i \in Identifiers, sys \in SYSTEM_CHOICES, sms \in SmsOutcomes :
    LET absent == PasswordResetRequestPost(reqs, otps, i, sys, GetUserPhoneByEmail("absent"),
                                           sms, FormatCode(0), now, nextTok, nextOtp)
        phoneless == PasswordResetRequestPost(reqs, otps, i, sys,
                                              GetUserPhoneByEmail("no_phone"),
                                              sms, FormatCode(0), now, nextTok, nextOtp)
    IN /\ absent = phoneless
       /\ (sys \in {"zoho", "both"} /\ Cardinality(InTrailingHour(i)) < 3)
          => /\ absent.res = "AccountNotFound"
             /\ absent.reqs = reqs
             /\ absent.otps = otps
             /\ absent.tok = 0
             /\ \A j \in Identifiers :
                  RateLimited(absent.reqs, j, now) = RateLimited(reqs, j, now)

(* a Start has just been refused with AccountNotFound for an identifier that
   has two requests from earlier Start calls, and none was added *)
C29_Witness ==
  /\ last.op = "Start" /\ last.res = "AccountNotFound" /\ last.tok = 0
  /\ \E i \in Identifiers : Cardinality(InTrailingHour(i)) = 2
  /\ Cardinality(DOMAIN reqs) = nextTok - 1


(* the codes of the challenges stored in ot *)
StoredCodes(ot) == {ot[k].code : k \in DOMAIN ot}

(* C30 - No log entry written by Start, Issue, the code delivery, Verify or
   Commit contains the code of a challenge that is stored when the operation
   has finished. *)
C30_NoCodeInLogs ==
  /\ \A i \in FlowIdentifiers, sys \in SYSTEM_CHOICES, resolve \in ResolveOutcomes,
        sms \in SmsOutcomes, code \in Codes :
       \A e \in StartLog(reqs, otps, i, sys, resolve, sms, code, now, nextTok, nextOtp) :
         e.code \notin StoredCodes(PasswordResetRequestPost(reqs, otps, i, sys, resolve, sms,
                                                            code, now, nextTok, nextOtp).otps)
  /\ \A tok \in DOMAIN reqs :
       /\ \A code \in Codes :
            \A e \in IssueLog(reqs, otps, tok, code, now, nextOtp) :
              e.code \notin StoredCodes(GenerateOtp(reqs, otps, tok, code, now, nextOtp).otps)
       /\ \A code \in SubmittedCodes :
            \A e \in VerifyLog(reqs, otps, tok, code, now) : e.code \notin StoredCodes(otps)
       /\ \A idp \in SetCredentialOutcomes :
            \A e \in CommitLog(reqs, otps, tok, idp, now) : e.code \notin StoredCodes(otps)


(* C31 as stated - When the identity-provider call of Commit returns failure
   or raises an error, the request's stored status becomes failed. *)
C31_RemoteFailureStoresFailed ==
  \A tok \in DOMAIN reqs, idp \in SetCredentialOutcomes \ {"ok"} :
    LET r == PasswordResetConfirmPost(reqs, otps, tok, idp, now)
    IN r.idp = "set" => r.reqs[tok].status = "failed"

(* C31 as amended - When the identity-provider call of Commit returns failure
   or raises ZohoException, the request's stored status becomes otp_validated
   (never failed), whatever it was, and the failure is reported; when the
   call raises any other error the stored status is left as it was. *)
C31_RemoteFailureStoresOtpValidated ==
  \A tok \in DOMAIN reqs, idp \in SetCredentialOutcomes \ {"ok"} :
    LET r == PasswordResetConfirmPost(reqs, otps, tok, idp, now)
    IN r.idp = "set"
       => /\ idp \in {"false", "zoho_error"}
             => /\ r.reqs[tok].status = "otp_validated"
                /\ r.res \in {"RemoteCommitFailed", "ZohoException"}
          /\ idp \notin {"false", "zoho_error"}
             => /\ r.reqs[tok].status = reqs[tok].status
                /\ r.res = "internal_error"

(* a Commit has just failed with ZohoException, in the instant in which the
   challenge was validated, and the request is stored otp_validated *)
C31_Witness ==
  /\ last.op = "Commit" /\ last.idp = "set" /\ last.res = "ZohoException"
  /\ reqs[last.tok].status = "otp_validated"
  /\ now <= reqs[last.tok].expires_at
  /\ \E k \in ValidatedChallengesOf(last.tok) : otps[k].validated_at = now


(* C32 - A Verify (with a well-formed code) or a Commit with a token that
   matches no stored request fails with RequestNotFound, changes no stored
   request or challenge and makes no identity-provider call. *)
C32_UnknownTokenNotFound ==
  \A tok \in (Tokens \cup {UnknownToken}) \ DOMAIN reqs :
    /\ \A code \in SubmittedCodes :
         LET r == OtpValidationPost(reqs, otps, tok, code, now)
         IN /\ r.res = "RequestNotFound" /\ r.idp = "none" /\ r.cmp = 0
            /\ r.reqs = reqs /\ r.otps = otps
    /\ \A idp \in SetCredentialOutcomes :
         LET r == PasswordResetConfirmPost(reqs, otps, tok, idp, now)
         IN /\ r.res = "RequestNotFound" /\ r.idp = "none"
            /\ r.reqs = reqs /\ r.otps = otps

(* a Verify or a Commit with a token that is not stored has just been
   answered RequestNotFound while a request with a pending challenge is stored *)
C32_Witness ==
  /\ last.op \in {"Verify", "Commit"} /\ last.res = "RequestNotFound"
  /\ last.tok \notin DOMAIN reqs
  /\ \E k \in DOMAIN otps : otps[k].status = "pending" /\ otps[k].attempts = 0


(* the calls of the three workflow operations: the operation, the code it
   is given or draws, and the identity provider's answer *)
TokenOps ==
  {[op |-> "Issue", code |-> FormatCode(0), idp |-> "none"]}
  \cup {[op |-> "Verify", code |-> c, idp |-> "none"] : c \in Codes}
  \cup {[op |-> "Commit", code |-> <<>>, idp |-> o] : o \in {"ok", "false"}}

(* the result of call o on token tok with the rows rq and ot at time t, id
   being the key of the OTP row an Issue creates *)
ApplyOp(o, rq, ot, tok, t, id) ==
  CASE o.op = "Issue" -> GenerateOtp(rq, ot, tok, o.code, t, id)
    [] o.op = "Verify" -> OtpValidationPost(rq, ot, tok, o.code, t)
    [] OTHER -> PasswordResetConfirmPost(rq, ot, tok, o.idp, t)

(* the request tok and its challenges among the rows rq and ot *)
RowsOf(rq, ot, tok) ==
  [request |-> rq[tok],
   challenges |-> {ot[k] : k \in {j \in DOMAIN ot : ot[j].reset_request = tok}},
   count |-> Cardinality({j \in DOMAIN ot : ot[j].reset_request = tok})]

(* C33 - Cross-token independence: an Issue, Verify or Commit on token A
   changes no field of the request B or of B's challenges and gives B no
   challenge, also when A and B are requests of the same identifier; and an
   operation on B reports the same result and leaves the same rows of B
   whether or not an operation on A runs before it. *)
C33_CrossTokenIndependence ==
  \A A \in DOMAIN reqs : \A B \in DOMAIN reqs \ {A}, a \in TokenOps :
    \A ra \in {ApplyOp(a, reqs, otps, A, now, nextOtp)} :
      \A id \in {IF nextOtp \in DOMAIN ra.otps THEN nextOtp + 1 ELSE nextOtp},
         before \in {RowsOf(reqs, otps, B)} :
        /\ RowsOf(ra.reqs, ra.otps, B) = before
        /\ \A k \in ChallengesOf(B) : ra.otps[k] = otps[k]
        /\ \A b \in TokenOps :
             \A alone \in {ApplyOp(b, reqs, otps, B, now, nextOtp)},
                after \in {ApplyOp(b, ra.reqs, ra.otps, B, now, id)} :
               /\ after.res = alone.res
               /\ after.idp = alone.idp
               /\ (after.cmp = 0) = (alone.cmp = 0)
               /\ RowsOf(after.reqs, after.otps, B) = RowsOf(alone.reqs, alone.otps, B)

(* two requests of the same identifier are stored; the challenge of the
   first has just been validated while the second, created at the same
   instant, is pending with an untouched challenge *)
C33_Witness ==
  /\ last.op = "Verify" /\ last.res = "valid" /\ last.tok = 1
  /\ 2 \in DOMAIN reqs
  /\ reqs[1].identifier = reqs[2].identifier
  /\ reqs[1].created_at = reqs[2].created_at
  /\ reqs[1].status = "otp_validated" /\ reqs[2].status = "pending"
  /\ \E k \in ChallengesOf(2) : otps[k].status = "pending" /\ otps[k].attempts = 0


(* C34 - With Verify handlers working on the same token at the same time, a
   challenge that is stored validated stays validated in every step, no
   wrong-code Verify stores pending or exceeded_attempts over it, and a
   request stored otp_validated has a validated challenge. *)
C34_ValidatedStaysValidated ==
  [][ /\ \A k \in DOMAIN otps :
           otps[k].status = "validated" => otps'[k].status = "validated"
      /\ \A tok \in DOMAIN reqs' :
           reqs'[tok].status = "otp_validated"
           => \E k \in DOMAIN otps' :
                otps'[k].reset_request = tok /\ otps'[k].status = "validated" ]_vars


(* C35 - In every reachable state every request is stored completed if and
   only if its completed_at is set. *)
C35_CompletedIffStamped ==
  \A tok \in DOMAIN reqs :
    (reqs[tok].status = "completed") <=> (reqs[tok].completed_at # NULL)


(* C36 - For every target system, a Start that ends with an error because
   no delivery channel is available stores no request and adds nothing to
   the identifier's rate-limit count; and every request that is stored has
   had a challenge issued for it. *)
C36_NoChannelNoRequest ==
  /\ \A tok \in DOMAIN reqs : ChallengesOf(tok) # {}
  /\ \A i \in FlowIdentifiers, sys \in SYSTEM_CHOICES, resolve \in ResolveOutcomes,
        sms \in SmsOutcomes :
       \A r \in {PasswordResetRequestPost(reqs, otps, i, sys, resolve, sms, FormatCode(0),
                                          now, nextTok, nextOtp)} :
         r.res \in {"AccountNotFound", "telefone_nao_encontrado"}
         => /\ r.reqs = reqs
            /\ RecentRequests(r.reqs, i, now) = RecentRequests(reqs, i, now)


(* what reset_attempts on the selection sel does to the stored challenges:
   selected challenges in exceeded_attempts get attempts 0 and status pending,
   selected pending challenges with 3 or more attempts get attempts 0, and
   nothing else changes *)
ResetAttemptsFrame(sel, after) ==
  /\ DOMAIN after = DOMAIN otps
  /\ \A k \in DOMAIN otps :
       IF k \in sel /\ otps[k].status = "exceeded_attempts"
       THEN after[k] = [otps[k] EXCEPT !.attempts = 0, !.status = "pending"]
       ELSE IF k \in sel /\ otps[k].status = "pending" /\ otps[k].attempts >= MAX_OTP_ATTEMPTS
       THEN after[k] = [otps[k] EXCEPT !.attempts = 0]
       ELSE after[k] = otps[k]
  /\ \A k \in DOMAIN otps :
       /\ after[k].code = otps[k].code
       /\ after[k].expires_at = otps[k].expires_at
       /\ otps[k].status \in {"validated", "expired"} => after[k] = otps[k]

(* the instants from now on at which challenge k, reset with the selection
   sel, is the newest pending challenge of its request and not past its
   expires_at *)
VerifiableAfterReset(sel, k) ==
  {t \in ClockSamples \cup {otps[k].expires_at - 1, otps[k].expires_at} :
     /\ k \in sel /\ otps[k].status = "exceeded_attempts"
     /\ NewestPending(ResetSelected(otps, sel), otps[k].reset_request) = k
     /\ now <= t /\ t <= otps[k].expires_at}

(* C37 as stated - reset_attempts changes the selected challenges as
   ResetAttemptsFrame says, and afterwards a Verify with the stored code at
   any instant before the challenge's expires_at returns valid, provided the
   challenge is the newest pending one of its request. *)
C37_ResetThenVerifyValid ==
  \A sel \in SUBSET (DOMAIN otps) :
    /\ ResetAttemptsFrame(sel, ResetSelected(otps, sel))
    /\ \A k \in sel : \A t \in VerifiableAfterReset(sel, k) \ {otps[k].expires_at} :
         OtpValidationPost(reqs, ResetSelected(otps, sel), otps[k].reset_request,
                           otps[k].code, t).res = "valid"

(* C37 as amended - the same, up to and including the challenge's
   expires_at, for the instants at which the request itself is not past its
   expires_at; the Verify stores the challenge as validated. *)
C37_ResetThenVerifyValidInTime ==
  \A sel \in SUBSET (DOMAIN otps) :
    /\ ResetAttemptsFrame(sel, ResetSelected(otps, sel))
    /\ \A k \in sel : \A t \in VerifiableAfterReset(sel, k) :
         t <= reqs[otps[k].reset_request].expires_at
         => LET v == OtpValidationPost(reqs, ResetSelected(otps, sel), otps[k].reset_request,
                                       otps[k].code, t)
            IN v.res = "valid" /\ v.otps[k].status = "validated"

(* reset_attempts has just run, the newest pending challenge of a live
   request has attempts 0, and a Verify with its stored code is valid now *)
C37_Witness ==
  /\ last.op = "ResetAttempts"
  /\ \E k \in DOMAIN otps :
       /\ otps[k].status = "pending" /\ otps[k].attempts = 0
       /\ NewestPending(otps, otps[k].reset_request) = k
       /\ now <= reqs[otps[k].reset_request].expires_at
       /\ OtpValidationPost(reqs, otps, otps[k].reset_request, otps[k].code, now).res = "valid"


(* the instants from now on at which a Verify of request tok is tried: now,
   the clock samples, and the expires_at of each of its challenges *)
VerifyInstants(tok) ==
  {t \in ClockSamples \cup {now} \cup {otps[k].expires_at : k \in ChallengesOf(tok)} : now <= t}

(* C38 - Verify and Commit agree on challenge expiry at every instant: when
   a Verify at time t finds the challenge unexpired and validates it, a
   Commit of the same request at the same time t is authorized by that
   challenge, so it is not refused with NotVerified; this includes t equal
   to the challenge's expires_at. *)
C38_VerifyAndCommitAgreeOnExpiry ==
  \A tok \in DOMAIN reqs, code \in Codes : \A t \in VerifyInstants(tok) :
    \A v \in {OtpValidationPost(reqs, otps, tok, code, t)} :
      v.res = "valid"
      => \A idp \in SetCredentialOutcomes :
           PasswordResetConfirmPost(v.reqs, v.otps, tok, idp, t).res # "NotVerified"

====
